---- MODULE Spec2Model ----
(***************************************************************************)
(* Model of src/src/sound_factory.py: the two insertion-ordered caches     *)
(* (TimelineFactory.cache, SoundWaveFactory.cahe), the objects they hold   *)
(* and the operations get_timeline, get_soundwave, normalize_sound_waves   *)
(* and save_wave.                                                          *)
(*                                                                         *)
(* Python is dynamically typed and normalize_sound_waves passes values of  *)
(* unexpected types to get_soundwave, so every Python value is a tagged    *)
(* tuple: <<"None">>, <<"num", p, q>> (the number p/q in lowest terms, an   *)
(* int when q = 1; Python's 2 == 2.0 and hash(2) == hash(2.0), so one       *)
(* representation serves dict keys), <<"str", s>>, <<"Timeline", id>>,      *)
(* <<"SoundWave", id>>, <<"TimelineFactory">>.                              *)
(***************************************************************************)
EXTENDS Integers, Sequences, FiniteSets, TLC

VARIABLES
    cache,      \* TimelineFactory.cache: OrderedDict, as a sequence of [key, obj] in insertion order
    cahe,       \* SoundWaveFactory.cahe: OrderedDict, as a sequence of [key, obj] in insertion order
    timelines,  \* heap of Timeline objects; the id of an object is its index (creation order)
    waves,      \* heap of SoundWave objects; the id of an object is its index (creation order)
    factory,    \* the SoundWaveFactory instances
    last        \* the last completed call: operation, arguments, result, cache events,
                \* files written

vars == <<cache, cahe, timelines, waves, factory, last>>

(* ------------------------------ bounds --------------------------------- *)

\* Objects (Timeline and SoundWave together) created in one behaviour.
MaxObjects == 5
\* Longest argument list of normalize_sound_waves.
MaxNormalize == 1

\* Arguments the callers draw from: those of direct calls of get_timeline (the
\* factories call it with their own rates), and those a caller of get_soundwave
\* passes explicitly ("h9" is a note the note table does not know).
TimelineDurations == {1, 2}
Rates == {1}
Durations == {2}
Amplitudes == {2}
Notes == {"a4", "h9"}
\* The type and file_name arguments of save_wave ("MP3" is not a save type).
Types == {"TXT", "WAV", "MP3"}
FileNames == {"c#5"}

(* --------------------------- Python values ----------------------------- *)

None == <<"None">>
Num(p, q) == <<"num", p, q>>
PyInt(n) == Num(n, 1)
Str(s) == <<"str", s>>
TimelineRef(id) == <<"Timeline", id>>
SoundWaveRef(id) == <<"SoundWave", id>>
TimelineFactoryObj == <<"TimelineFactory">>

IsNum(v) == v[1] = "num"
IsInt(v) == v[1] = "num" /\ v[3] = 1
IsStr(v) == v[1] = "str"

RECURSIVE Gcd(_, _)
Gcd(a, b) == IF b = 0 THEN a ELSE Gcd(b, a % b)

\* a + b on numbers (int + int, or true fractions for floats)
NumAdd(a, b) ==
    LET p == a[2] * b[3] + b[2] * a[3]
        q == a[3] * b[3]
        g == Gcd(p, q)
    IN  Num(p \div g, q \div g)

\* a / n, Python's true division of a number by the int n > 0
NumDiv(a, n) ==
    LET p == a[2]
        q == a[3] * n
        g == Gcd(p, q)
    IN  IF p = 0 THEN Num(0, 1) ELSE Num(p \div g, q \div g)

(* --------------------------- OrderedDict ------------------------------- *)

KeysOf(od) == {od[i].key : i \in 1..Len(od)}

\* key in od
Contains(od, key) == \E i \in 1..Len(od) : od[i].key = key

\* od[key]
Lookup(od, key) == od[CHOOSE i \in 1..Len(od) : od[i].key = key].obj

\* od[key] = obj, for a key that is not in od: appended at the end
SetItem(od, key, obj) == Append(od, [key |-> key, obj |-> obj])

\* Mutation of popitem: od.popitem(), which removes the last (newest) item.
popitem_last(od) == SubSeq(od, 1, Len(od) - 1)

\* od.popitem(last=False): removes the first (oldest inserted) item
popitem(od) == Tail(od)

(* ----------------------- program constants ----------------------------- *)

\* TimelineFactory.CACHE_SIZE and SoundWaveFactory.CACHE_SIZE are 10**6 in the
\* source; scaled down so that a cache fills up within the model's bounds.
TimelineFactory_CACHE_SIZE == 2
SoundWaveFactory_CACHE_SIZE == 2

(* ------------------ collaborators outside src/ ------------------------- *)

\* The note table of src/utils.py (not in src/): the notes it knows.
KnownNotes == {"a4", "c#5", "c4"}

\* utils.get_soundwave(timeline, note, amplitude).astype(np.int16): one sample
\* per time point; fails for a note the table does not know.
utils_get_soundwave(timeline_len, note, amplitude) ==
    IF IsStr(note) /\ note[2] \in KnownNotes /\ IsNum(amplitude)
    THEN [raised |-> "", len |-> timeline_len]
    ELSE [raised |-> "UnknownNoteError", len |-> 0]

(* ------------------------------ Timeline ------------------------------- *)

\* Mutation of TimelineInit: one point per step and both end points,
\* num=sampling_rate * duration_seconds + 1.
TimelineInit_both_ends(duration_seconds, sampling_rate) ==
    IF IsInt(duration_seconds) /\ IsInt(sampling_rate)
    THEN [raised |-> "",
          obj |-> [duration_seconds |-> duration_seconds,
                   sampling_rate |-> sampling_rate,
                   timeline |-> sampling_rate[2] * duration_seconds[2] + 1]]
    ELSE [raised |-> "TypeError", obj |-> None]

\* Timeline.__init__: np.linspace(0, duration_seconds, num=sampling_rate * duration_seconds)
\* yields exactly num points for an int num >= 0; for a str duration_seconds the
\* product is a repeated str and linspace raises TypeError (as for any non-int num).
TimelineInit(duration_seconds, sampling_rate) ==
    IF IsInt(duration_seconds) /\ IsInt(sampling_rate)
    THEN [raised |-> "",
          obj |-> [duration_seconds |-> duration_seconds,
                   sampling_rate |-> sampling_rate,
                   timeline |-> sampling_rate[2] * duration_seconds[2]]]
    ELSE [raised |-> "TypeError", obj |-> None]

(* --------------------------- TimelineFactory --------------------------- *)

\* Mutation of TimelineFactory_get_cache_key: the sampling rate is left out of the key.
TimelineFactory_get_cache_key_no_rate(duration_seconds, sampling_rate) ==
    <<duration_seconds>>

\* TimelineFactory.__get_cache_key
TimelineFactory_get_cache_key(duration_seconds, sampling_rate) ==
    <<duration_seconds, sampling_rate>>

\* TimelineFactory.get_timeline, lines 47-49: if the cache is full, remove the first item
TimelineFactory_evict(od) ==
    IF Len(od) > TimelineFactory_CACHE_SIZE THEN popitem(od) ELSE od

\* The key an eviction removed from od (None when nothing was removed).
Evicted(od, after) ==
    LET gone == KeysOf(od) \ KeysOf(after)
    IN  IF gone = {} THEN None ELSE CHOOSE k \in gone : TRUE

\* A call's record of one cache access (instrumentation, not program state).
Event(key, hit, obj, evicted) ==
    [key |-> key, hit |-> hit, obj |-> obj, evicted |-> evicted]

\* TimelineFactory.get_timeline, lines 41-51 (the miss): create a new timeline
\* object, add it to the cache, evict, return it. w is the world (the caches and
\* heaps); the result is the world after the call, its outcome in raised / ret.
TimelineFactory_add(w, duration_seconds, sampling_rate, cache_key) ==
    LET t == TimelineInit(duration_seconds, sampling_rate)
        id == Len(w.timelines) + 1
        inserted == SetItem(w.cache, cache_key, id)
        kept == TimelineFactory_evict(inserted)
    IN  IF t.raised # ""
        THEN [w EXCEPT !.raised = t.raised, !.ret = None]
        ELSE [w EXCEPT !.timelines = Append(@, t.obj),
                       !.cache = kept,
                       !.raised = "",
                       !.ret = TimelineRef(id),
                       !.tl = Append(@, Event(cache_key, FALSE, id, Evicted(inserted, kept)))]

\* Mutation of get_timeline: a true LRU, a hit moves the entry to the end
\* (cls.cache.move_to_end(cache_key)).
get_timeline_lru(w, duration_seconds, sampling_rate) ==
    LET cache_key == TimelineFactory_get_cache_key(duration_seconds, sampling_rate)
        at == CHOOSE i \in 1..Len(w.cache) : w.cache[i].key = cache_key
    IN  IF Contains(w.cache, cache_key)
        THEN [w EXCEPT !.raised = "",
                       !.ret = TimelineRef(Lookup(w.cache, cache_key)),
                       !.cache = SubSeq(@, 1, at - 1) \o SubSeq(@, at + 1, Len(@)) \o <<@[at]>>,
                       !.tl = Append(@, Event(cache_key, TRUE, Lookup(w.cache, cache_key), None))]
        ELSE TimelineFactory_add(w, duration_seconds, sampling_rate, cache_key)

\* Mutation of get_timeline: the cache is never consulted, every call creates a
\* Timeline and adds it to the cache.
get_timeline_always_new(w, duration_seconds, sampling_rate) ==
    TimelineFactory_add(w, duration_seconds, sampling_rate,
                        TimelineFactory_get_cache_key(duration_seconds, sampling_rate))

\* TimelineFactory.get_timeline(duration_seconds, sampling_rate)
get_timeline(w, duration_seconds, sampling_rate) ==
    LET cache_key == TimelineFactory_get_cache_key(duration_seconds, sampling_rate)
    IN  IF Contains(w.cache, cache_key)
        THEN [w EXCEPT !.raised = "",
                       !.ret = TimelineRef(Lookup(w.cache, cache_key)),
                       !.tl = Append(@, Event(cache_key, TRUE, Lookup(w.cache, cache_key), None))]
        ELSE TimelineFactory_add(w, duration_seconds, sampling_rate, cache_key)

(* ------------------------------ SoundWave ------------------------------ *)

\* Mutation of SoundWaveInit: a failure of utils.get_soundwave is swallowed and
\* the SoundWave is constructed with no samples.
SoundWaveInit_silent(w, timeline, note, amplitude) ==
    LET u == utils_get_soundwave(w.timelines[timeline[2]].timeline, note, amplitude)
    IN  [raised |-> "",
         obj |-> [note |-> note, amplitude |-> amplitude,
                  timeline |-> timeline[2], sound_wave |-> u.len]]

\* SoundWave.__init__(timeline, note, amplitude): the samples are computed eagerly
SoundWaveInit(w, timeline, note, amplitude) ==
    LET u == utils_get_soundwave(w.timelines[timeline[2]].timeline, note, amplitude)
    IN  IF u.raised # ""
        THEN [raised |-> u.raised, obj |-> None]
        ELSE [raised |-> "",
              obj |-> [note |-> note, amplitude |-> amplitude,
                       timeline |-> timeline[2], sound_wave |-> u.len]]

(* --------------------------- SoundWaveFactory -------------------------- *)

\* The attribute self.timeline_factory when __init__ never assigned it.
Unset == <<"unset">>

\* SoundWaveFactory.__init__
SoundWaveFactoryInit(sampling_rate, default_duration_seconds, max_amplitude, timeline_factory) ==
    [sampling_rate |-> sampling_rate,
     default_duration_seconds |-> default_duration_seconds,
     max_amplitude |-> max_amplitude,
     timeline_factory |-> IF timeline_factory = None THEN TimelineFactoryObj ELSE Unset]

\* Mutation of SoundWaveFactory_get_cache_key: the sampling rate is left out of the key.
SoundWaveFactory_get_cache_key_no_rate(self, duration_seconds, note, amplitude) ==
    <<None, note, amplitude, duration_seconds>>

\* SoundWaveFactory.__get_cache_key
SoundWaveFactory_get_cache_key(self, duration_seconds, note, amplitude) ==
    <<self.sampling_rate, note, amplitude, duration_seconds>>

\* Mutation of SoundWaveFactory_evict: the size test is off by one.
SoundWaveFactory_evict_late(od) ==
    IF Len(od) > SoundWaveFactory_CACHE_SIZE + 1 THEN popitem(od) ELSE od

\* SoundWaveFactory.__get_from_cache_or_add, lines 236-238: if the cache is full, remove the first item
SoundWaveFactory_evict(od) ==
    IF Len(od) > SoundWaveFactory_CACHE_SIZE THEN popitem(od) ELSE od

\* Mutation of obtain_timeline: the Timeline is constructed directly,
\* Timeline(duration_seconds=..., sampling_rate=self.sampling_rate), not through the factory.
obtain_timeline_uncached(w, self, duration_seconds) ==
    LET t == TimelineInit(duration_seconds, self.sampling_rate)
    IN  IF t.raised # ""
        THEN [w EXCEPT !.raised = t.raised, !.ret = None]
        ELSE [w EXCEPT !.timelines = Append(@, t.obj),
                       !.raised = "",
                       !.ret = TimelineRef(Len(w.timelines) + 1)]

\* SoundWaveFactory.__get_from_cache_or_add, lines 226-229: create timeline object
\* (self.timeline_factory is read first: AttributeError when __init__ did not set it)
obtain_timeline(w, self, duration_seconds) ==
    IF self.timeline_factory = Unset
    THEN [w EXCEPT !.raised = "AttributeError", !.ret = None]
    ELSE get_timeline(w, duration_seconds, self.sampling_rate)

\* Mutation of SoundWaveFactory_add: the note is looked up before the timeline is
\* obtained, so a call for an unknown note fails before the time-axis cache is asked.
SoundWaveFactory_add_note_first(w, self, duration_seconds, note, amplitude, cache_key) ==
    LET w1 == obtain_timeline(w, self, duration_seconds)
        looked_up == utils_get_soundwave(0, note, amplitude)
    IN  IF looked_up.raised # ""
        THEN [w EXCEPT !.raised = looked_up.raised, !.ret = None]
        ELSE IF w1.raised # ""
        THEN w1
        ELSE LET sound_wave == SoundWaveInit(w1, w1.ret, note, amplitude)
                 id == Len(w1.waves) + 1
                 inserted == SetItem(w1.cahe, cache_key, id)
                 kept == SoundWaveFactory_evict(inserted)
             IN  [w1 EXCEPT !.waves = Append(@, sound_wave.obj),
                            !.cahe = kept,
                            !.raised = "",
                            !.ret = SoundWaveRef(id),
                            !.sw = Append(@, Event(cache_key, FALSE, id, Evicted(inserted, kept)))]

\* Mutation of SoundWaveFactory_add: the SoundWave is constructed with the
\* factory's max_amplitude, whatever amplitude was asked for.
SoundWaveFactory_add_max_amplitude(w, self, duration_seconds, note, amplitude, cache_key) ==
    LET w1 == obtain_timeline(w, self, duration_seconds)
    IN  IF w1.raised # ""
        THEN w1
        ELSE LET sound_wave == SoundWaveInit(w1, w1.ret, note, self.max_amplitude)
                 id == Len(w1.waves) + 1
                 inserted == SetItem(w1.cahe, cache_key, id)
                 kept == SoundWaveFactory_evict(inserted)
             IN  IF sound_wave.raised # ""
                 THEN [w1 EXCEPT !.raised = sound_wave.raised, !.ret = None]
                 ELSE [w1 EXCEPT !.waves = Append(@, sound_wave.obj),
                                 !.cahe = kept,
                                 !.raised = "",
                                 !.ret = SoundWaveRef(id),
                                 !.sw = Append(@, Event(cache_key, FALSE, id, Evicted(inserted, kept)))]

\* SoundWaveFactory.__get_from_cache_or_add, lines 226-240 (the miss)
SoundWaveFactory_add(w, self, duration_seconds, note, amplitude, cache_key) ==
    LET w1 == obtain_timeline(w, self, duration_seconds)
    IN  IF w1.raised # ""
        THEN w1
        ELSE LET sound_wave == SoundWaveInit(w1, w1.ret, note, amplitude)
                 id == Len(w1.waves) + 1
                 inserted == SetItem(w1.cahe, cache_key, id)
                 kept == SoundWaveFactory_evict(inserted)
             IN  IF sound_wave.raised # ""
                 THEN [w1 EXCEPT !.raised = sound_wave.raised, !.ret = None]
                 ELSE [w1 EXCEPT !.waves = Append(@, sound_wave.obj),
                                 !.cahe = kept,
                                 !.raised = "",
                                 !.ret = SoundWaveRef(id),
                                 !.sw = Append(@, Event(cache_key, FALSE, id, Evicted(inserted, kept)))]

\* Mutation of get_from_cache_or_add: the cache is never consulted.
get_from_cache_or_add_no_hit(w, self, duration_seconds, note, amplitude) ==
    SoundWaveFactory_add(w, self, duration_seconds, note, amplitude,
                         SoundWaveFactory_get_cache_key(self, duration_seconds, note, amplitude))

\* Mutation of get_from_cache_or_add: the timeline is obtained before the
\* wave cache is consulted, so a wave-cache hit goes through the time-axis cache.
get_from_cache_or_add_timeline_first(w, self, duration_seconds, note, amplitude) ==
    LET cache_key == SoundWaveFactory_get_cache_key(self, duration_seconds, note, amplitude)
        w1 == obtain_timeline(w, self, duration_seconds)
    IN  IF w1.raised # ""
        THEN w1
        ELSE IF Contains(w1.cahe, cache_key)
        THEN [w1 EXCEPT !.raised = "",
                        !.ret = SoundWaveRef(Lookup(w1.cahe, cache_key)),
                        !.sw = Append(@, Event(cache_key, TRUE, Lookup(w1.cahe, cache_key), None))]
        ELSE SoundWaveFactory_add(w, self, duration_seconds, note, amplitude, cache_key)

\* SoundWaveFactory.__get_from_cache_or_add
get_from_cache_or_add(w, self, duration_seconds, note, amplitude) ==
    LET cache_key == SoundWaveFactory_get_cache_key(self, duration_seconds, note, amplitude)
    IN  IF Contains(w.cahe, cache_key)
        THEN [w EXCEPT !.raised = "",
                       !.ret = SoundWaveRef(Lookup(w.cahe, cache_key)),
                       !.sw = Append(@, Event(cache_key, TRUE, Lookup(w.cahe, cache_key), None))]
        ELSE SoundWaveFactory_add(w, self, duration_seconds, note, amplitude, cache_key)

\* Mutation of get_soundwave: omitted arguments are passed on as None.
get_soundwave_no_default(w, self, note, duration_seconds, amplitude) ==
    get_from_cache_or_add(w, self, duration_seconds, note, amplitude)

\* SoundWaveFactory.get_soundwave(note, duration_seconds, amplitude)
get_soundwave(w, self, note, duration_seconds, amplitude) ==
    LET d == IF duration_seconds = None THEN self.default_duration_seconds ELSE duration_seconds
        a == IF amplitude = None THEN self.max_amplitude ELSE amplitude
    IN  get_from_cache_or_add(w, self, d, note, a)

RECURSIVE SumAmplitudes(_, _, _)
\* sum([sound_wave.amplitude for sound_wave in sound_waves]), from index i on
SumAmplitudes(w, sound_waves, i) ==
    IF i > Len(sound_waves) THEN PyInt(0)
    ELSE NumAdd(w.waves[sound_waves[i]].amplitude, SumAmplitudes(w, sound_waves, i + 1))

RECURSIVE NormalizeLoop(_, _, _, _, _, _)
\* the for loop of normalize_sound_waves, from index i on; the positional call
\* get_soundwave(sound_wave.timeline, sound_wave.note, new_amplitude) binds
\* note = the Timeline, duration_seconds = the note, amplitude = the average
NormalizeLoop(w, self, sound_waves, new_amplitude, i, normalized_sound_waves) ==
    IF i > Len(sound_waves)
    THEN [w EXCEPT !.raised = "", !.ret = <<"list", normalized_sound_waves>>]
    ELSE LET sound_wave == w.waves[sound_waves[i]]
             w1 == get_soundwave(w, self, TimelineRef(sound_wave.timeline),
                                 sound_wave.note, new_amplitude)
         IN  IF w1.raised # ""
             THEN w1
             ELSE NormalizeLoop(w1, self, sound_waves, new_amplitude, i + 1,
                                Append(normalized_sound_waves, w1.ret))

\* Mutation of normalize_sound_waves: an empty list is answered with an empty list.
normalize_sound_waves_guarded(w, self, sound_waves) ==
    IF Len(sound_waves) = 0
    THEN [w EXCEPT !.raised = "", !.ret = <<"list", <<>>>>]
    ELSE LET average_amplitude == NumDiv(SumAmplitudes(w, sound_waves, 1), Len(sound_waves))
         IN  NormalizeLoop(w, self, sound_waves, average_amplitude, 1, <<>>)

\* SoundWaveFactory.normalize_sound_waves(sound_waves), sound_waves a list of SoundWave ids
normalize_sound_waves(w, self, sound_waves) ==
    IF Len(sound_waves) = 0
    THEN [w EXCEPT !.raised = "ZeroDivisionError", !.ret = None]
    ELSE LET average_amplitude == NumDiv(SumAmplitudes(w, sound_waves, 1), Len(sound_waves))
         IN  NormalizeLoop(w, self, sound_waves, average_amplitude, 1, <<>>)

(* ------------------------------ save_wave ------------------------------ *)

SAVE_TYPE_TXT == Str("TXT")
SAVE_TYPE_WAV == Str("WAV")

\* The two output directories, as the prefixes of the paths written.
TextDirectory == "sound_text_files/"
AudioDirectory == "sound_wav_files/"

\* The characters of a str in use (the note names, which also serve as file names).
Chars(s) ==
    CASE s = "a4" -> <<"a", "4">>
      [] s = "c4" -> <<"c", "4">>
      [] s = "c#5" -> <<"c", "#", "5">>
      [] s = "h9" -> <<"h", "9">>

\* f"{v}": the text of a str or an int inside an f-string; a text is a sequence
\* of characters and of literal fragments (which hold no "#").
Format(v) ==
    IF IsStr(v) THEN Chars(v[2]) ELSE <<ToString(v[2])>>

\* text.replace(old, new), for a single character old
Replace(text, old, new) ==
    [i \in 1..Len(text) |-> IF text[i] = old THEN new ELSE text[i]]

\* SoundWaveFactory.__generate_file_name(sound_wave, file_name, type)
generate_file_name(w, self, sound_wave, file_name, type) ==
    LET name == IF file_name = None \/ file_name = Str("")
                THEN <<"sound_wave_">> \o Format(w.waves[sound_wave].note) \o <<"_">>
                     \o Format(w.timelines[w.waves[sound_wave].timeline].duration_seconds)
                     \o <<"_">> \o Format(w.waves[sound_wave].amplitude)
                ELSE Format(file_name)
    IN  IF type = SAVE_TYPE_TXT
        THEN [raised |-> "", ret |-> Replace(<<TextDirectory>> \o name \o <<".txt">>, "#", "s")]
        ELSE IF type = SAVE_TYPE_WAV
        THEN [raised |-> "", ret |-> Replace(<<AudioDirectory>> \o name \o <<".wav">>, "#", "s")]
        ELSE [raised |-> "ValueError", ret |-> None]

\* np.savetxt(file_name, array) and wavfile.write(file_name, rate, array): one
\* file is written at path, created or replaced (the two output directories
\* exist). The files are outside the program; the call's record lists its writes.
WriteFile(w, path, content) ==
    [w EXCEPT !.written = Append(@, [path |-> path, content |-> content])]

\* Mutation of save_wave: the text dump is written whatever the type, before the
\* type is looked at.
save_wave_dump_first(w, self, sound_wave, file_name, type) ==
    LET name == generate_file_name(w, self, sound_wave, file_name, SAVE_TYPE_TXT)
        file == generate_file_name(w, self, sound_wave, file_name, type)
        dumped == WriteFile(w, name.ret, <<"txt", w.waves[sound_wave].sound_wave>>)
    IN  IF file.raised # ""
        THEN [dumped EXCEPT !.raised = file.raised, !.ret = None]
        ELSE IF type = SAVE_TYPE_TXT
        THEN [dumped EXCEPT !.raised = "", !.ret = None]
        ELSE [WriteFile(dumped, file.ret,
                        <<"wav", self.sampling_rate, w.waves[sound_wave].sound_wave>>)
                EXCEPT !.raised = "", !.ret = None]

\* SoundWaveFactory.save_wave(sound_wave, file_name, type), sound_wave a SoundWave id
save_wave(w, self, sound_wave, file_name, type) ==
    LET file == generate_file_name(w, self, sound_wave, file_name, type)
    IN  IF file.raised # ""
        THEN [w EXCEPT !.raised = file.raised, !.ret = None]
        ELSE IF type = SAVE_TYPE_TXT
        THEN [WriteFile(w, file.ret, <<"txt", w.waves[sound_wave].sound_wave>>)
                EXCEPT !.raised = "", !.ret = None]
        ELSE IF type = SAVE_TYPE_WAV
        THEN [WriteFile(w, file.ret,
                        <<"wav", self.sampling_rate, w.waves[sound_wave].sound_wave>>)
                EXCEPT !.raised = "", !.ret = None]
        ELSE [w EXCEPT !.raised = "ValueError", !.ret = None]

(* ------------------------------ the system ------------------------------ *)

\* The world a call starts in: the caches and heaps, no outcome, no events yet.
World ==
    [cache |-> cache, cahe |-> cahe, timelines |-> timelines, waves |-> waves,
     raised |-> "", ret |-> None, tl |-> <<>>, sw |-> <<>>, written |-> <<>>]

\* History: the call's first access to a cache evicted the entry that the call
\* before had hit in its last access to that cache.
EvictedAfterHit(before, events) ==
    /\ before # <<>>
    /\ events # <<>>
    /\ before[Len(before)].hit
    /\ events[1].evicted = before[Len(before)].key

\* History: the call, on factory f, got by a cache hit the object that the call
\* before, on another factory, had created.
SharedAcross(before, events, f) ==
    /\ before # <<>>
    /\ events # <<>>
    /\ f # 0 /\ last.f # 0 /\ f # last.f
    /\ ~before[Len(before)].hit
    /\ events[1].hit
    /\ events[1].obj = before[Len(before)].obj

\* The state after a call of operation op, on factory f (0: none) with arguments
\* args, whose outcome is w, in a behaviour that creates at most limit objects.
CommitWithin(limit, w, op, f, args) ==
    /\ Len(w.timelines) + Len(w.waves) <= limit
    /\ cache' = w.cache
    /\ cahe' = w.cahe
    /\ timelines' = w.timelines
    /\ waves' = w.waves
    /\ factory' = factory
    /\ last' = [op |-> op, f |-> f, args |-> args, raised |-> w.raised, ret |-> w.ret,
                tl |-> w.tl, sw |-> w.sw, written |-> w.written,
                tl_evicted_after_hit |-> EvictedAfterHit(last.tl, w.tl),
                sw_evicted_after_hit |-> EvictedAfterHit(last.sw, w.sw),
                tl_shared |-> SharedAcross(last.tl, w.tl, f),
                sw_shared |-> SharedAcross(last.sw, w.sw, f)]

\* The state after a call, in a behaviour of at most MaxObjects objects.
Commit(w, op, f, args) == CommitWithin(MaxObjects, w, op, f, args)

\* The constructor arguments of the factories of a behaviour: two of the same
\* sampling rate with different maximum amplitudes, one of another rate, and one
\* constructed with an explicit timeline_factory (and another default duration).
\* (src/main.py constructs one factory, with 44100, 5, 2**13.)
FactoryArgs ==
    << [sampling_rate |-> PyInt(1), default_duration_seconds |-> PyInt(2),
        max_amplitude |-> PyInt(3), timeline_factory |-> None],
       [sampling_rate |-> PyInt(1), default_duration_seconds |-> PyInt(2),
        max_amplitude |-> PyInt(4), timeline_factory |-> None],
       [sampling_rate |-> PyInt(2), default_duration_seconds |-> PyInt(2),
        max_amplitude |-> PyInt(2), timeline_factory |-> None],
       [sampling_rate |-> PyInt(1), default_duration_seconds |-> PyInt(1),
        max_amplitude |-> PyInt(3), timeline_factory |-> TimelineFactoryObj] >>

Init ==
    /\ cache = <<>>
    /\ cahe = <<>>
    /\ timelines = <<>>
    /\ waves = <<>>
    /\ factory = [f \in 1..Len(FactoryArgs) |->
                    SoundWaveFactoryInit(FactoryArgs[f].sampling_rate,
                                         FactoryArgs[f].default_duration_seconds,
                                         FactoryArgs[f].max_amplitude,
                                         FactoryArgs[f].timeline_factory)]
    /\ last = [op |-> "init", f |-> 0, args |-> <<>>, raised |-> "", ret |-> None,
               tl |-> <<>>, sw |-> <<>>, written |-> <<>>,
               tl_evicted_after_hit |-> FALSE, sw_evicted_after_hit |-> FALSE,
               tl_shared |-> FALSE, sw_shared |-> FALSE]

\* A caller invokes TimelineFactory.get_timeline.
GetTimeline ==
    \E d \in TimelineDurations, r \in Rates :
        Commit(get_timeline(World, PyInt(d), PyInt(r)), "get_timeline", 0, <<PyInt(d), PyInt(r)>>)

OptArg(S) == {None} \cup {PyInt(x) : x \in S}

\* A caller invokes get_soundwave on a factory; None stands for an omitted argument.
GetSoundwave ==
    \E f \in 1..Len(factory), n \in Notes, d \in OptArg(Durations), a \in OptArg(Amplitudes) :
        Commit(get_soundwave(World, factory[f], Str(n), d, a), "get_soundwave", f, <<Str(n), d, a>>)

RECURSIVE Ascending(_)
\* The elements of a set of numbers as a sequence, in ascending order.
Ascending(S) ==
    IF S = {} THEN <<>>
    ELSE LET m == CHOOSE x \in S : \A y \in S : x <= y
         IN  <<m>> \o Ascending(S \ {m})

\* A caller invokes normalize_sound_waves on a factory with SoundWaves it holds
\* (at most MaxNormalize of the SoundWaves created so far, in order of creation).
NormalizeSoundWaves ==
    \E f \in 1..Len(factory), held \in SUBSET (1..Len(waves)) :
        /\ Cardinality(held) <= MaxNormalize
        /\ Commit(normalize_sound_waves(World, factory[f], Ascending(held)),
                  "normalize_sound_waves", f,
                  [i \in 1..Cardinality(held) |-> SoundWaveRef(Ascending(held)[i])])

\* A caller saves the SoundWave that its call of get_soundwave has just returned,
\* with the same factory, and may save it again (as src/main.py does); None
\* stands for an omitted file_name.
SaveWave ==
    \E file_name \in {None} \cup {Str(n) : n \in FileNames}, type \in Types :
        LET sound_wave == IF last.op = "get_soundwave" THEN last.ret ELSE last.args[1]
        IN  /\ \/ last.op = "get_soundwave" /\ last.raised = ""
               \/ last.op = "save_wave"
            /\ Commit(save_wave(World, factory[last.f], sound_wave[2], file_name, Str(type)),
                      "save_wave", last.f, <<sound_wave, file_name, Str(type)>>)

Next == GetTimeline \/ GetSoundwave \/ NormalizeSoundWaves \/ SaveWave

Spec == Init /\ [][Next]_vars

\* Longer behaviours of fewer callers: one more object is created, by direct
\* calls of get_timeline and by get_soundwave calls on two factories of different
\* sampling rates, with default durations.
LongRun == MaxObjects + 1
LongRunFactories == {1, 3}

GetTimelineLong ==
    \E d \in TimelineDurations, r \in Rates :
        CommitWithin(LongRun, get_timeline(World, PyInt(d), PyInt(r)),
                     "get_timeline", 0, <<PyInt(d), PyInt(r)>>)

GetSoundwaveLong ==
    \E f \in LongRunFactories, n \in Notes, a \in OptArg(Amplitudes) :
        CommitWithin(LongRun, get_soundwave(World, factory[f], Str(n), None, a),
                     "get_soundwave", f, <<Str(n), None, a>>)

NextLong == GetTimelineLong \/ GetSoundwaveLong

SpecLong == Init /\ [][NextLong]_vars

(* ------------------------- reading the state --------------------------- *)

\* The arguments that created Timeline i, as get_timeline's cache key.
TimelineKey(i) == <<timelines[i].duration_seconds, timelines[i].sampling_rate>>

\* The arguments that created SoundWave i, as get_soundwave's cache key.
WaveKey(i) ==
    <<timelines[waves[i].timeline].sampling_rate, waves[i].note, waves[i].amplitude,
      timelines[waves[i].timeline].duration_seconds>>

\* Object id is a value of the cache od.
Cached(od, id) == \E j \in 1..Len(od) : od[j].obj = id

\* The key of the entry of od that was created first (ids grow with creation).
OldestKey(od) == od[CHOOSE j \in 1..Len(od) : \A k \in 1..Len(od) : od[j].obj <= od[k].obj].key

\* The key that the next eviction removes from od.
NextOut(od) == IF od = <<>> THEN None ELSE CHOOSE k \in KeysOf(od) : k \notin KeysOf(popitem(od))

(* ------------------------------- C1 ------------------------------------ *)

\* C1: after any sequence of get_timeline and get_soundwave calls, from any of the
\* factory instances, the time-axis cache and the wave cache each hold at most
\* CACHE_SIZE entries once a call has returned.
C1_CachesBounded ==
    /\ Len(cache) <= TimelineFactory_CACHE_SIZE
    /\ Len(cahe) <= SoundWaveFactory_CACHE_SIZE

\* Both caches are full and the last call's insertion into the wave cache evicted an entry.
C1_Witness ==
    /\ Len(cache) = TimelineFactory_CACHE_SIZE
    /\ Len(cahe) = SoundWaveFactory_CACHE_SIZE
    /\ last.op = "get_soundwave"
    /\ last.sw # <<>>
    /\ last.sw[1].evicted # None

(* ------------------------------- C2 ------------------------------------ *)

\* C2: starting from an empty cache of capacity C, once C+1 pairwise distinct keys
\* have been requested (each request a miss that creates one object, so the
\* objects 1..C+1 of the heap are theirs, in request order), the first-requested
\* key is no longer in the cache, so its next lookup is a miss, and each of the
\* other C keys is in the cache with the instance created for it, so its next
\* lookup is a hit that returns that instance. For both caches.
C2_FirstKeyEvictedOthersKept ==
    /\ Len(timelines) = TimelineFactory_CACHE_SIZE + 1 =>
          /\ ~Contains(cache, TimelineKey(1))
          /\ \A i \in 2..Len(timelines) :
                Contains(cache, TimelineKey(i)) /\ Lookup(cache, TimelineKey(i)) = i
    /\ Len(waves) = SoundWaveFactory_CACHE_SIZE + 1 =>
          /\ ~Contains(cahe, WaveKey(1))
          /\ \A i \in 2..Len(waves) :
                Contains(cahe, WaveKey(i)) /\ Lookup(cahe, WaveKey(i)) = i

\* The last call requested the (C+1)-th distinct key of the wave cache and its
\* insertion evicted the first-requested key.
C2_Witness ==
    /\ Len(waves) = SoundWaveFactory_CACHE_SIZE + 1
    /\ last.op = "get_soundwave"
    /\ last.sw # <<>>
    /\ ~last.sw[1].hit
    /\ last.sw[1].evicted = WaveKey(1)

(* ------------------------------- C3 ------------------------------------ *)

C4_SameInstanceAlways ==
    [][ last'.tl # <<>> =>
          \A i \in 1..Len(timelines) :
              /\ TimelineKey(i) = last'.tl[1].key => last'.tl[1].obj = i
              /\ TimelineKey(i) # last'.tl[1].key => last'.tl[1].obj # i ]_vars

\* C4, amended: two calls of get_timeline with equal arguments return the same
\* Timeline instance as long as that instance has not been evicted from the cache
\* in between, and two calls whose arguments differ return different instances.
C4_SameInstanceWhileCached ==
    [][ last'.tl # <<>> =>
          \A i \in 1..Len(timelines) :
              /\ (TimelineKey(i) = last'.tl[1].key /\ Cached(cache, i)) => last'.tl[1].obj = i
              /\ TimelineKey(i) # last'.tl[1].key => last'.tl[1].obj # i ]_vars

\* The last get_timeline call returned, by a hit, an instance created before
\* other Timelines were: calls with other arguments happened in between.
C4_Witness ==
    /\ last.op = "get_timeline"
    /\ last.tl # <<>>
    /\ last.tl[1].hit
    /\ last.tl[1].obj < Len(timelines)

(* ------------------------------- C5 ------------------------------------ *)

\* C5 as stated: at a fixed sampling rate, any two calls of get_soundwave with
\* equal (note, amplitude, duration) return the same SoundWave instance, whatever
\* other get_soundwave calls happen in between.
C5_SameWaveAlways ==
    [][ last'.sw # <<>> =>
          \A i \in 1..Len(waves) :
              WaveKey(i) = last'.sw[1].key => last'.sw[1].obj = i ]_vars

\* C5, amended: two such calls return the same SoundWave instance as long as
\* that instance has not been evicted from the wave cache in between.
C5_SameWaveWhileCached ==
    [][ last'.sw # <<>> =>
          \A i \in 1..Len(waves) :
              (WaveKey(i) = last'.sw[1].key /\ Cached(cahe, i)) => last'.sw[1].obj = i ]_vars

\* The last get_soundwave call returned, by a hit, an instance created before
\* other SoundWaves were: calls with other arguments happened in between.
C5_Witness ==
    /\ last.op = "get_soundwave"
    /\ last.sw # <<>>
    /\ last.sw[1].hit
    /\ last.sw[1].obj < Len(waves)

(* ------------------------------- C6 ------------------------------------ *)

\* C6: the time-axis cache is one table shared by all SoundWaveFactory instances:
\* whichever factory's get_soundwave call asks for a Timeline, it is given the
\* instance that the table held for (duration, sampling_rate) before the call,
\* whoever put it there, and otherwise a new instance that the call put in the
\* table; a SoundWave the call creates references that Timeline; and the table
\* never holds more than the one capacity, whoever inserted.
C6_OneSharedTimeAxisTable ==
    [][ last'.op = "get_soundwave" =>
          /\ (last'.sw # <<>> /\ ~last'.sw[1].hit) =>
                /\ last'.tl # <<>>
                /\ last'.tl[1].key = <<last'.sw[1].key[4], factory[last'.f].sampling_rate>>
                /\ waves'[last'.sw[1].obj].timeline = last'.tl[1].obj
          /\ last'.tl # <<>> =>
                /\ Contains(cache, last'.tl[1].key) =>
                      /\ last'.tl[1].hit
                      /\ last'.tl[1].obj = Lookup(cache, last'.tl[1].key)
                /\ ~Contains(cache, last'.tl[1].key) =>
                      /\ last'.tl[1].obj = Len(timelines) + 1
                      /\ Contains(cache', last'.tl[1].key)
                      /\ Lookup(cache', last'.tl[1].key) = last'.tl[1].obj
                /\ Len(cache') <= TimelineFactory_CACHE_SIZE ]_vars

\* The last call, on one factory, got from the table the Timeline that the call
\* before it, on another factory, had created.
C6_Witness ==
    /\ last.op = "get_soundwave"
    /\ last.tl_shared
    /\ last.raised = ""

(* ------------------------------- C7 ------------------------------------ *)

\* What the call get_soundwave(note, duration_seconds, amplitude) on factory f
\* does when every omitted argument is written out as the factory's default.
WithDefaults(f, args) ==
    get_soundwave(World, factory[f], args[1],
                  IF args[2] = None THEN factory[f].default_duration_seconds ELSE args[2],
                  IF args[3] = None THEN factory[f].max_amplitude ELSE args[3])

\* C7: get_soundwave with duration_seconds omitted behaves exactly as the same
\* call with duration_seconds = the factory's default_duration_seconds, and with
\* amplitude omitted as the same call with amplitude = the factory's
\* max_amplitude: the same cache key, the same result, the same caches after.
C7_OmittedMeansDefault ==
    [][ last'.op = "get_soundwave" =>
          LET explicit == WithDefaults(last'.f, last'.args)
          IN  /\ last'.raised = explicit.raised
              /\ last'.ret = explicit.ret
              /\ last'.sw = explicit.sw
              /\ last'.tl = explicit.tl
              /\ cache' = explicit.cache
              /\ cahe' = explicit.cahe ]_vars

\* The last call omitted both arguments and was answered from the wave cache
\* under the key made of the factory's defaults.
C7_Witness ==
    /\ last.op = "get_soundwave"
    /\ last.args[2] = None
    /\ last.args[3] = None
    /\ last.sw # <<>>
    /\ last.sw[1].hit
    /\ last.sw[1].key = <<factory[last.f].sampling_rate, last.args[1],
                          factory[last.f].max_amplitude,
                          factory[last.f].default_duration_seconds>>

(* ------------------------------- C8 ------------------------------------ *)

\* C8: a SoundWaveFactory constructed with an explicit timeline_factory uses it:
\* a get_soundwave call for a known note that misses the wave cache succeeds and
\* returns a wave whose timeline was obtained from the timeline factory.
C8_ExplicitTimelineFactoryWorks ==
    (/\ last.op = "get_soundwave"
     /\ FactoryArgs[last.f].timeline_factory # None
     /\ last.args[1][2] \in KnownNotes
     /\ (last.sw = <<>> \/ ~last.sw[1].hit))
    => (/\ last.raised = ""
        /\ last.tl # <<>>
        /\ last.sw # <<>>
        /\ waves[last.sw[1].obj].timeline = last.tl[1].obj)

(* ------------------------------- C9 ------------------------------------ *)

\* The arithmetic mean of the amplitudes of the SoundWaves refs.
MeanAmplitude(refs) ==
    NumDiv(SumAmplitudes(World, [i \in 1..Len(refs) |-> refs[i][2]], 1), Len(refs))

\* C9: normalize_sound_waves on a non-empty sequence of waves returns a sequence
\* of the same length in which output i has the note and time axis of input i
\* and an amplitude equal to the arithmetic mean of all input amplitudes.
C9_NormalizeReturnsAveragedWaves ==
    (last.op = "normalize_sound_waves" /\ last.args # <<>>)
    => (/\ last.raised = ""
        /\ last.ret[1] = "list"
        /\ Len(last.ret[2]) = Len(last.args)
        /\ \A i \in 1..Len(last.args) :
              LET in == waves[last.args[i][2]]
                  out == waves[last.ret[2][i][2]]
              IN  /\ out.note = in.note
                  /\ timelines[out.timeline].duration_seconds = timelines[in.timeline].duration_seconds
                  /\ timelines[out.timeline].sampling_rate = timelines[in.timeline].sampling_rate
                  /\ out.amplitude = MeanAmplitude(last.args))

(* ------------------------------- C10 ----------------------------------- *)

\* C10: normalize_sound_waves called with an empty sequence fails with an error,
\* returns no result, and leaves both caches unchanged.
C10_NormalizeEmptyFails ==
    [][ (last'.op = "normalize_sound_waves" /\ last'.args = <<>>) =>
          /\ last'.raised # ""
          /\ last'.ret = None
          /\ cache' = cache
          /\ cahe' = cahe ]_vars

\* The last call was normalize_sound_waves([]) with entries in both caches; it
\* failed on the division by len(sound_waves) = 0.
C10_Witness ==
    /\ last.op = "normalize_sound_waves"
    /\ last.args = <<>>
    /\ last.raised = "ZeroDivisionError"
    /\ cache # <<>>
    /\ cahe # <<>>

(* ------------------------------- C11 ----------------------------------- *)

\* The wave-cache key of the call get_soundwave(note, duration_seconds, amplitude)
\* on factory f, its omitted arguments replaced by the factory's defaults.
CallKey(f, args) ==
    <<factory[f].sampling_rate, args[1],
      IF args[3] = None THEN factory[f].max_amplitude ELSE args[3],
      IF args[2] = None THEN factory[f].default_duration_seconds ELSE args[2]>>

\* C11: a get_soundwave call that misses the wave cache for a note the note table
\* does not recognize fails with an error, returns no wave, and adds no entry to
\* the wave cache: the cache is as it was, and the call's key is still not in it,
\* so a later call with the same arguments is again a miss.
C11_UnknownNoteFailsUncached ==
    [][ (/\ last'.op = "get_soundwave"
         /\ last'.args[1][2] \notin KnownNotes
         /\ ~Contains(cahe, CallKey(last'.f, last'.args)))
        => (/\ last'.raised # ""
            /\ last'.ret = None
            /\ last'.sw = <<>>
            /\ waves' = waves
            /\ cahe' = cahe
            /\ ~Contains(cahe', CallKey(last'.f, last'.args))) ]_vars

\* The last call asked a factory that has its timeline factory for an unknown
\* note, got as far as constructing the SoundWave and failed there, with entries
\* in the wave cache.
C11_Witness ==
    /\ last.op = "get_soundwave"
    /\ last.args[1][2] \notin KnownNotes
    /\ last.raised = "UnknownNoteError"
    /\ last.tl # <<>>
    /\ cahe # <<>>

(* ------------------------------- C12 ----------------------------------- *)

\* C12: save_wave called with a type other than SAVE_TYPE_TXT or SAVE_TYPE_WAV
\* fails with an error and writes no file; with SAVE_TYPE_TXT it writes exactly
\* one file, in the text output directory, and with SAVE_TYPE_WAV exactly one
\* file, in the audio output directory.
C12_SaveWaveByType ==
    last.op = "save_wave" =>
        /\ last.args[3] \notin {SAVE_TYPE_TXT, SAVE_TYPE_WAV} =>
              /\ last.raised # ""
              /\ last.written = <<>>
        /\ last.args[3] = SAVE_TYPE_TXT =>
              /\ last.raised = ""
              /\ Len(last.written) = 1
              /\ last.written[1].path[1] = TextDirectory
              /\ last.written[1].content[1] = "txt"
        /\ last.args[3] = SAVE_TYPE_WAV =>
              /\ last.raised = ""
              /\ Len(last.written) = 1
              /\ last.written[1].path[1] = AudioDirectory
              /\ last.written[1].content[1] = "wav"

\* The last call saved a SoundWave as audio under the file name "c#5": one file,
\* sound_wav_files/cs5.wav, holding the wave's samples at the factory's rate.
C12_Witness ==
    /\ last.op = "save_wave"
    /\ last.args[3] = SAVE_TYPE_WAV
    /\ last.written = << [path |-> <<AudioDirectory, "c", "s", "5", ".wav">>,
                          content |-> <<"wav", factory[last.f].sampling_rate,
                                        waves[last.args[1][2]].sound_wave>>] >>

(* ------------------------------- C13 ----------------------------------- *)

\* C13: a cache hit changes nothing: a get_timeline hit leaves the time-axis
\* cache's contents and insertion order unchanged, and a get_soundwave hit leaves
\* both the wave cache and the time-axis cache unchanged; the time-axis cache is
\* not consulted on a wave-cache hit. No object is created either way.
C13_HitChangesNothing ==
    [][ /\ (last'.op = "get_timeline" /\ last'.tl # <<>> /\ last'.tl[1].hit) =>
              /\ cache' = cache
              /\ cahe' = cahe
              /\ timelines' = timelines
        /\ (last'.op = "get_soundwave" /\ last'.sw # <<>> /\ last'.sw[1].hit) =>
              /\ cahe' = cahe
              /\ cache' = cache
              /\ last'.tl = <<>>
              /\ timelines' = timelines
              /\ waves' = waves ]_vars

\* The last get_soundwave call was a hit on a SoundWave whose Timeline is no
\* longer in the (full) time-axis cache: had the call consulted the time-axis
\* cache, it would have missed there and inserted.
C13_Witness ==
    /\ last.op = "get_soundwave"
    /\ last.sw # <<>>
    /\ last.sw[1].hit
    /\ ~Cached(cache, waves[last.sw[1].obj].timeline)
    /\ Len(cache) = TimelineFactory_CACHE_SIZE

(* ------------------------------- C14 ----------------------------------- *)

\* C14: the wave cache is one table shared by all SoundWaveFactory instances and
\* disambiguated by sampling rate: whichever factory calls get_soundwave, if the
\* table holds a SoundWave made at the factory's sampling_rate for the call's
\* (note, amplitude, duration), whichever factory created it, the call returns
\* that instance; and the SoundWave a call returns is never one made at a
\* sampling_rate other than the calling factory's.
C14_OneWaveTableKeyedByRate ==
    [][ (last'.op = "get_soundwave" /\ last'.sw # <<>>) =>
          /\ \A i \in 1..Len(waves) :
                (/\ Cached(cahe, i)
                 /\ timelines[waves[i].timeline].sampling_rate = factory[last'.f].sampling_rate
                 /\ waves[i].note = last'.args[1]
                 /\ waves[i].amplitude = CallKey(last'.f, last'.args)[3]
                 /\ timelines[waves[i].timeline].duration_seconds = CallKey(last'.f, last'.args)[4])
                => last'.sw[1].obj = i
          /\ timelines'[waves'[last'.sw[1].obj].timeline].sampling_rate
                = factory[last'.f].sampling_rate ]_vars

\* The last call, on one factory, was given from the table the SoundWave that the
\* call before it, on another factory of the same sampling_rate, had created,
\* while the table also holds a SoundWave made at another sampling_rate.
C14_Witness ==
    /\ last.op = "get_soundwave"
    /\ last.sw_shared
    /\ \E j \in 1..Len(cahe) :
          timelines[waves[cahe[j].obj].timeline].sampling_rate # factory[last.f].sampling_rate

(* ------------------------------- C15 ----------------------------------- *)

\* C15: in every reachable state each cache entry is consistent with its key: the
\* SoundWave stored under (sampling_rate, note, amplitude, duration_seconds) has
\* that note and amplitude and references a Timeline with that duration_seconds
\* and sampling_rate, and the Timeline stored under (duration_seconds,
\* sampling_rate) has those two attribute values.
C15_EntriesMatchTheirKeys ==
    /\ \A j \in 1..Len(cahe) :
          LET sound_wave == waves[cahe[j].obj]
              timeline == timelines[sound_wave.timeline]
          IN  /\ cahe[j].key[1] = timeline.sampling_rate
              /\ cahe[j].key[2] = sound_wave.note
              /\ cahe[j].key[3] = sound_wave.amplitude
              /\ cahe[j].key[4] = timeline.duration_seconds
    /\ \A j \in 1..Len(cache) :
          /\ cache[j].key[1] = timelines[cache[j].obj].duration_seconds
          /\ cache[j].key[2] = timelines[cache[j].obj].sampling_rate

\* Both caches are full, the time-axis cache after an eviction: the wave cache
\* holds a SoundWave whose Timeline is no longer in the time-axis cache.
C15_Witness ==
    /\ Len(cahe) = SoundWaveFactory_CACHE_SIZE
    /\ Len(cache) = TimelineFactory_CACHE_SIZE
    /\ \E j \in 1..Len(cahe) : ~Cached(cache, waves[cahe[j].obj].timeline)

(* ------------------------------- C16 ----------------------------------- *)

\* C16 as stated: in every reachable state, any two SoundWave entries of the wave
\* cache whose keys have the same sampling_rate and the same duration_seconds
\* reference the same Timeline instance.
C16_CachedWavesShareTimeline ==
    \A i, j \in 1..Len(cahe) :
        (cahe[i].key[1] = cahe[j].key[1] /\ cahe[i].key[4] = cahe[j].key[4])
        => waves[cahe[i].obj].timeline = waves[cahe[j].obj].timeline

\* C16, amended: a SoundWave entering the wave cache references the same Timeline
\* instance as every entry of the same sampling_rate and duration_seconds whose
\* Timeline is still in the time-axis cache at that moment; an entry whose
\* Timeline has been evicted from the time-axis cache keeps that Timeline, and
\* the new SoundWave is given another.
C16_CachedWavesShareCachedTimeline ==
    [][ (last'.op = "get_soundwave" /\ last'.sw # <<>> /\ ~last'.sw[1].hit) =>
          \A i \in 1..Len(cahe) :
              (/\ cahe[i].key[1] = last'.sw[1].key[1]
               /\ cahe[i].key[4] = last'.sw[1].key[4])
              => IF Cached(cache, waves[cahe[i].obj].timeline)
                 THEN waves'[last'.sw[1].obj].timeline = waves[cahe[i].obj].timeline
                 ELSE waves'[last'.sw[1].obj].timeline > waves[cahe[i].obj].timeline ]_vars

\* The wave cache holds two SoundWaves of one sampling_rate and duration_seconds
\* that reference one Timeline, the later SoundWave created after other
\* Timelines were.
C16_Witness ==
    \E i, j \in 1..Len(cahe) :
        /\ cahe[i].obj < cahe[j].obj
        /\ cahe[i].key[1] = cahe[j].key[1]
        /\ cahe[i].key[4] = cahe[j].key[4]
        /\ waves[cahe[i].obj].timeline = waves[cahe[j].obj].timeline
        /\ Len(timelines) > waves[cahe[i].obj].timeline
        /\ last.op = "get_soundwave"
        /\ last.sw # <<>>
        /\ last.sw[1].obj = cahe[j].obj
        /\ ~last.sw[1].hit

(* ------------------------------- C17 ----------------------------------- *)

\* C17 as stated: a get_soundwave call that fails for an unknown note leaves the
\* time-axis cache exactly as it was before the call: no Timeline is inserted and
\* none is evicted.
C17_FailedCallKeepsTimeAxisCache ==
    [][ (/\ last'.op = "get_soundwave"
         /\ last'.args[1][2] \notin KnownNotes
         /\ last'.raised # "")
        => cache' = cache ]_vars

\* C17, amended: such a call leaves the time-axis cache as it was only if the
\* Timeline of (duration_seconds, sampling_rate) was already in it, or the call
\* failed before asking for the Timeline; otherwise the call has created that
\* Timeline and inserted it, evicting the oldest entry if the cache was full,
\* and the Timeline stays in the cache although the call failed. Nothing else
\* is inserted or evicted.
C17_FailedCallMayCacheTimeline ==
    [][ (/\ last'.op = "get_soundwave"
         /\ last'.args[1][2] \notin KnownNotes
         /\ last'.raised # "")
        => LET key == <<CallKey(last'.f, last'.args)[4], factory[last'.f].sampling_rate>>
           IN  IF Contains(cache, key) \/ factory[last'.f].timeline_factory = Unset
               THEN cache' = cache /\ timelines' = timelines
               ELSE /\ Len(timelines') = Len(timelines) + 1
                    /\ timelines'[Len(timelines')].duration_seconds = key[1]
                    /\ timelines'[Len(timelines')].sampling_rate = key[2]
                    /\ cache'[Len(cache')] = [key |-> key, obj |-> Len(timelines')]
                    /\ IF Len(cache) < TimelineFactory_CACHE_SIZE
                       THEN SubSeq(cache', 1, Len(cache') - 1) = cache
                       ELSE SubSeq(cache', 1, Len(cache') - 1) = Tail(cache) ]_vars

\* The last call failed for an unknown note after it had inserted a new Timeline
\* into the full time-axis cache, which evicted another.
C17_Witness ==
    /\ last.op = "get_soundwave"
    /\ last.raised = "UnknownNoteError"
    /\ last.tl # <<>>
    /\ ~last.tl[1].hit
    /\ last.tl[1].evicted # None
    /\ Cached(cache, last.tl[1].obj)

(* ------------------------------- C18 ----------------------------------- *)

\* C18: for positive integer sampling_rate and duration_seconds, every Timeline
\* has exactly sampling_rate * duration_seconds time points, and every SoundWave
\* has exactly as many samples as the Timeline it references.
C18_SampleCounts ==
    /\ \A i \in 1..Len(timelines) :
          (/\ IsInt(timelines[i].sampling_rate) /\ timelines[i].sampling_rate[2] > 0
           /\ IsInt(timelines[i].duration_seconds) /\ timelines[i].duration_seconds[2] > 0)
          => timelines[i].timeline
                = timelines[i].sampling_rate[2] * timelines[i].duration_seconds[2]
    /\ \A i \in 1..Len(waves) :
          waves[i].sound_wave = timelines[waves[i].timeline].timeline

\* There are SoundWaves of different sample counts, one of them on a Timeline
\* of sampling_rate 2 and duration 2, and a Timeline of one time point.
C18_Witness ==
    /\ \E i, j \in 1..Len(waves) : waves[i].sound_wave # waves[j].sound_wave
    /\ \E i \in 1..Len(waves) :
          /\ waves[i].sound_wave = 4
          /\ timelines[waves[i].timeline].sampling_rate = PyInt(2)
          /\ timelines[waves[i].timeline].duration_seconds = PyInt(2)
    /\ \E i \in 1..Len(timelines) : timelines[i].timeline = 1

====
